---- MODULE Spec2Model ----
(***************************************************************************)
(* Model of the GraphQL demo server: the in-memory Data Store (users,      *)
(* posts, comments), the root resolvers, the two mutations and, for the    *)
(* websocket variant, the /ws message handler and the addPost broadcast.   *)
(*                                                                         *)
(* A JavaScript value that takes part in an id comparison is modelled as a *)
(* tagged record, a number or a string, because the resolvers compare ids  *)
(* with the coercing == operator: GraphQL hands every ID argument to the   *)
(* resolver as a string while the generated ids are numbers.               *)
(*                                                                         *)
(* An object reference (what Array.find returns) is modelled as the index  *)
(* of the record in its collection, 0 standing for undefined.              *)
(***************************************************************************)
EXTENDS Integers, Sequences, FiniteSets, TLC

VARIABLES users, posts, comments, clients, now, last

vars == <<users, posts, comments, clients, now, last>>

-----------------------------------------------------------------------------
(* Bounds of the model *)

MaxPosts == 2
MaxComments == 2
MaxClients == 2

-----------------------------------------------------------------------------
(* JavaScript values *)

Num(n) == [k |-> "number", n |-> n, s |-> ""]
Str(s) == [k |-> "string", n |-> 0, s |-> s]

\* Number(s) of the ID strings a request may carry; NaN compares unequal to
\* every number.
NaN == -1
IdStrings == {"1", "2", "01", "zz"}
ToNumber(s) ==
  CASE s = "1" -> 1
    [] s = "2" -> 2
    [] s = "01" -> 1
    [] OTHER -> NaN

\* a == b on numbers and strings
LooseEq(a, b) ==
  IF a.k = b.k THEN a = b
  ELSE IF a.k = "number" THEN ToNumber(b.s) # NaN /\ ToNumber(b.s) = a.n
  ELSE ToNumber(a.s) # NaN /\ ToNumber(a.s) = b.n

\* the value of an absent / undefined String field
undefined == "<undefined>"
Falsy(v) == v \in {undefined, ""}

DefaultImage == "https://picsum.photos/600/400"

Min(S) == CHOOSE x \in S : \A y \in S : x <= y

-----------------------------------------------------------------------------
(* Request inputs *)

Titles == {"T"}
Texts == {"x"}
Images == {undefined, "a.png"}
AuthorIds == {"2", "zz"}
PostIds == {"1", "zz"}

\* what new Date() may read; the clock never runs backwards
Times == {0, 1}
Clock(t) == {u \in Times : u >= t}

PostInput == [title : Titles, text : Texts, authorId : AuthorIds, image : Images]
CommentInput == [text : Texts, authorId : {"1"}, postId : PostIds]

-----------------------------------------------------------------------------
(* Seed data: ./data/users, ./data/posts, ./data/comments *)

SeedUsers == << [id |-> Num(1), name |-> "u1"], [id |-> Num(2), name |-> "u2"] >>

SeedPosts ==
  { <<>> } \cup
  { << [id |-> Num(1), title |-> "T", text |-> "x", authorId |-> Num(1),
        image |-> img, createdAt |-> 0] >> : img \in Images }

\* a seeded comment belongs to a seeded post
SeedComments(ps) ==
  { <<>> } \cup
  { << [id |-> Num(1), text |-> "x", authorId |-> Num(2), postId |-> ps[i].id,
        createdAt |-> 0] >> : i \in 1..Len(ps) }

-----------------------------------------------------------------------------
(* Resolvers.  Each returns the collections as the call leaves them and the *)
(* reference(s) it returns.                                                 *)

\* find with === in place of ==
findStrict(coll, id) ==
  LET hit == {i \in 1..Len(coll) : coll[i].id = id}
  IN  IF hit = {} THEN 0 ELSE Min(hit)

\* Array.prototype.find on the id field: the first record whose id == id
find(coll, id) ==
  LET hit == {i \in 1..Len(coll) : LooseEq(coll[i].id, id)}
  IN  IF hit = {} THEN 0 ELSE Min(hit)

\* root.user: users.find(u => u.id == id)
user(us, id) == find(us, id)

\* root.post: the found post gets its image overwritten
post(ps, id) ==
  LET i == find(ps, id)
  IN  [posts |-> IF i = 0 THEN ps
                 ELSE [ps EXCEPT ![i].image = DefaultImage],
       ref |-> i]

\* root.posts: every post gets a default image when it has none
postsAll(ps) ==
  [i \in 1..Len(ps) |->
     [ps[i] EXCEPT !.image = IF Falsy(ps[i].image) THEN DefaultImage
                             ELSE ps[i].image]]

\* filter with === in place of ==
RECURSIVE filterStrictFrom(_, _, _)
filterStrictFrom(cs, postId, i) ==
  IF i > Len(cs) THEN <<>>
  ELSE IF cs[i].postId = postId
       THEN <<i>> \o filterStrictFrom(cs, postId, i + 1)
       ELSE filterStrictFrom(cs, postId, i + 1)

\* comments.filter(c => c.postId == postId), as indices in store order
RECURSIVE filterFrom(_, _, _)
filterFrom(cs, postId, i) ==
  IF i > Len(cs) THEN <<>>
  ELSE IF LooseEq(cs[i].postId, postId)
       THEN <<i>> \o filterFrom(cs, postId, i + 1)
       ELSE filterFrom(cs, postId, i + 1)

\* root.comments: for each matching comment root.post({id: postId}) is
\* called and captured by the comment's post and author closures
commentsOf(ps, cs, postId) ==
  LET refs == filterFrom(cs, postId, 1)
      p    == post(ps, postId)
  IN  [posts |-> IF refs = <<>> THEN ps ELSE p.posts,
       refs  |-> refs,
       post  |-> IF refs = <<>> THEN 0 ELSE p.ref]

-----------------------------------------------------------------------------
(* Websocket events *)

\* JSON.stringify of a post: the data properties are kept, an undefined
\* image is left out of the text (the function-valued decorations too)
absent == "<absent>"
stringify(p) ==
  [id |-> p.id, title |-> p.title, text |-> p.text, authorId |-> p.authorId,
   image |-> IF p.image = undefined THEN absent ELSE p.image,
   createdAt |-> p.createdAt]

stringifyAll(ps) == [i \in 1..Len(ps) |-> stringify(ps[i])]

\* makeEvent(eventName, data)
makeEvent(eventName, data) == [event |-> eventName, data |-> data]

\* broadcast: clients.forEach(c => c.send(message)), in the order of the
\* client set.  A socket that is no longer OPEN either drops the message or
\* makes send throw (throws), depending on the websocket library; a throw
\* leaves forEach at once.
RECURSIVE broadcastFrom(_, _, _, _)
broadcastFrom(cl, i, message, throws) ==
  IF i > Len(cl) THEN [sent |-> <<>>, threw |-> FALSE]
  ELSE IF cl[i].readyState = "OPEN"
       THEN LET rest == broadcastFrom(cl, i + 1, message, throws)
            IN  [sent |-> <<[to |-> i, message |-> message]>> \o rest.sent,
                 threw |-> rest.threw]
       ELSE IF throws THEN [sent |-> <<>>, threw |-> TRUE]
            ELSE broadcastFrom(cl, i + 1, message, throws)

broadcast(cl, message, throws) == broadcastFrom(cl, 1, message, throws)

\* a reply sent to every client instead of the one that asked
wsSendAll(cl, i, message) == broadcast(cl, message, FALSE).sent

\* ws.send(message) on the socket the message came from
wsSend(cl, i, message) == <<[to |-> i, message |-> message]>>

-----------------------------------------------------------------------------
(* The outcome of the last request, as its caller observes it *)

Out(op, arg) ==
  [op |-> op, arg |-> arg, before |-> 0, ret |-> <<>>, threw |-> FALSE,
   sent |-> <<>>, post |-> <<>>, author |-> <<>>, authorThrew |-> FALSE]

deref(coll, i) == IF i = 0 THEN <<>> ELSE <<coll[i]>>

\* the fields of a returned comment, resolved by the engine after
\* root.comments returned: post() is the captured post, author() reads
\* post.authorId of the captured post
resolveComment(out, us, r) ==
  IF r.refs = <<>> THEN out
  ELSE [out EXCEPT
          !.post = deref(r.posts, r.post),
          !.authorThrew = (r.post = 0),
          !.author = IF r.post = 0 THEN <<>>
                     ELSE deref(us, user(us, r.posts[r.post].authorId))]

-----------------------------------------------------------------------------
(* State machine *)

Init ==
  /\ users = SeedUsers
  /\ posts \in SeedPosts
  /\ comments \in SeedComments(posts)
  /\ clients = <<>>
  /\ now = 0
  /\ last = Out("start", 0)

User ==
  \E s \in IdStrings :
    /\ last' = [Out("user", Str(s)) EXCEPT !.ret = deref(users, user(users, Str(s)))]
    /\ UNCHANGED <<users, posts, comments, clients, now>>

Users ==
  /\ last' = [Out("users", 0) EXCEPT !.ret = users]
  /\ UNCHANGED <<users, posts, comments, clients, now>>

Post ==
  \E s \in IdStrings :
    LET p == post(posts, Str(s))
    IN  /\ posts' = p.posts
        /\ last' = [Out("post", Str(s)) EXCEPT !.ret = deref(p.posts, p.ref)]
        /\ UNCHANGED <<users, comments, clients, now>>

Posts ==
  /\ posts' = postsAll(posts)
  /\ last' = [Out("posts", 0) EXCEPT !.ret = postsAll(posts)]
  /\ UNCHANGED <<users, comments, clients, now>>

Comments ==
  \E s \in IdStrings :
    LET r == commentsOf(posts, comments, Str(s))
    IN  /\ posts' = r.posts
        /\ last' = resolveComment(
                     [Out("comments", Str(s)) EXCEPT
                        !.ret = [i \in 1..Len(r.refs) |-> comments[r.refs[i]]]],
                     users, r)
        /\ UNCHANGED <<users, comments, clients, now>>

\* id: comments.length, without the + 1
newCommentIdLength(cs) == Len(cs)

\* "id": comments.length + 1
newCommentId(cs) == Len(cs) + 1

AddComment ==
  \E comment \in CommentInput, date \in Clock(now) :
    /\ Len(comments) < MaxComments
    /\ now' = date
    /\ LET newComment == [id |-> Num(newCommentId(comments)),
                          text |-> comment.text,
                          authorId |-> Str(comment.authorId),
                          createdAt |-> date,
                          postId |-> Str(comment.postId)]
           cs == Append(comments, newComment)
           r  == commentsOf(posts, cs, Str(comment.postId))
           hit == {i \in 1..Len(r.refs) : LooseEq(cs[r.refs[i]].id, newComment.id)}
           out == [Out("addComment", comment) EXCEPT
                     !.before = Len(comments),
                     !.ret = IF hit = {} THEN <<>> ELSE <<cs[r.refs[Min(hit)]]>>]
       IN  /\ comments' = cs
           /\ posts' = r.posts
           /\ last' = IF hit = {} THEN out ELSE resolveComment(out, users, r)
    /\ UNCHANGED <<users, clients>>

\* id: posts.length, without the + 1
newPostIdLength(ps) == Len(ps)

\* "id": posts.length + 1
newPostId(ps) == Len(ps) + 1

AddPost ==
  \E input \in PostInput, date \in Clock(now), throws \in BOOLEAN :
    /\ Len(posts) < MaxPosts
    /\ now' = date
    /\ LET newPost == [id |-> Num(newPostId(posts)),
                       title |-> input.title,
                       text |-> input.text,
                       authorId |-> Str(input.authorId),
                       image |-> input.image,
                       createdAt |-> date]
           ps == Append(posts, newPost)
           b  == broadcast(clients, makeEvent("addPost", stringify(newPost)), throws)
           p  == post(ps, newPost.id)
           out == [Out("addPost", input) EXCEPT
                     !.before = Len(posts), !.sent = b.sent, !.threw = b.threw]
       IN  IF b.threw
           THEN /\ posts' = ps
                /\ last' = out
           ELSE /\ posts' = p.posts
                /\ last' = [out EXCEPT !.ret = deref(p.posts, p.ref)]
    /\ UNCHANGED <<users, comments, clients>>

-----------------------------------------------------------------------------
(* Websocket endpoint /ws *)

Messages == {"getPosts", "ping", "not json"}

\* a client connects: the server adds its socket to the client set
WsConnect ==
  /\ Len(clients) < MaxClients
  /\ clients' = Append(clients, [readyState |-> "OPEN"])
  /\ UNCHANGED <<users, posts, comments, now, last>>

\* a client starts the closing handshake: the socket stays in the client
\* set, no longer OPEN
WsClosing ==
  \E i \in 1..Len(clients) :
    /\ clients[i].readyState = "OPEN"
    /\ clients' = [clients EXCEPT ![i].readyState = "CLOSING"]
    /\ UNCHANGED <<users, posts, comments, now, last>>

\* the socket closed: the server removes it from the client set
WsClosed ==
  \E i \in 1..Len(clients) :
    /\ clients[i].readyState = "CLOSING"
    /\ clients' = SubSeq(clients, 1, i - 1) \o SubSeq(clients, i + 1, Len(clients))
    /\ UNCHANGED <<users, posts, comments, now, last>>

\* ws.on('message'): JSON.parse(msg), a getPosts event is answered on the
\* same socket with all posts
WsMessage ==
  \E i \in 1..Len(clients), msg \in Messages :
    /\ clients[i].readyState = "OPEN"
    /\ last' =
         IF msg = "not json"
         THEN [Out("message", msg) EXCEPT !.before = i, !.threw = TRUE]
         ELSE IF msg = "getPosts"
         THEN [Out("message", msg) EXCEPT
                 !.before = i,
                 !.sent = wsSend(clients, i,
                                 makeEvent("updatePosts", stringifyAll(posts)))]
         ELSE [Out("message", msg) EXCEPT !.before = i]
    /\ UNCHANGED <<users, posts, comments, clients, now>>

\* index.js: the GraphQL endpoint alone; no websocket client ever connects
\* and the addPost broadcast has nobody to send to
Next ==
  \/ User
  \/ Users
  \/ Post
  \/ Posts
  \/ Comments
  \/ AddComment
  \/ AddPost

Spec == Init /\ [][Next]_vars

\* the websocket variant: the GraphQL endpoint and the /ws endpoint
NextWs ==
  \/ Post
  \/ Posts
  \/ AddPost
  \/ WsConnect
  \/ WsClosing
  \/ WsClosed
  \/ WsMessage

\* no operation of NextWs reads the comments
InitWs == Init /\ comments = <<>>

SpecWs == InitWs /\ [][NextWs]_vars

-----------------------------------------------------------------------------
(* Properties *)

Queries == {"user", "users", "post", "posts", "comments"}

\* an ID argument names a stored numeric id
Names(s, id) == id.k = "number" /\ ToNumber(s) # NaN /\ ToNumber(s) = id.n

Present(coll, s) == \E i \in 1..Len(coll) : Names(s, coll[i].id)

LookupOk(coll) ==
  IF Present(coll, last.arg.s)
  THEN /\ Len(last.ret) = 1
       /\ Names(last.arg.s, last.ret[1].id)
       /\ \E i \in 1..Len(coll) : coll[i] = last.ret[1]
  ELSE last.ret = <<>>

\* a stored comment's postId matches an ID argument
Matches(c, s) ==
  IF c.postId.k = "string" THEN c.postId.s = s ELSE Names(s, c.postId)

OpenClients == {i \in 1..Len(clients) : clients[i].readyState = "OPEN"}

\* the addPost events of the last request that went to client i
AddPostEventsTo(i) ==
  {j \in 1..Len(last.sent) :
     /\ last.sent[j].to = i
     /\ last.sent[j].message.event = "addPost"}

\* client i got exactly one addPost event, carrying the appended post
GotNewPost(i) ==
  /\ Cardinality(AddPostEventsTo(i)) = 1
  /\ \A j \in AddPostEventsTo(i) :
       LET d == last.sent[j].message.data
       IN  /\ d.id = Num(last.before + 1)
           /\ d.title = last.arg.title
           /\ d.text = last.arg.text
           /\ d.authorId = Str(last.arg.authorId)
           /\ Len(posts) = last.before + 1
           /\ posts[Len(posts)].id = d.id

\* C1: addPost followed by post(newId) returns an entity equal in title,
\* text, authorId and image to the input, with id = the post count before
\* the call + 1 and a createdAt timestamp, and the post count grows by 1.
\* (The image is compared where the input gives one.)
C1_AddPostRoundTrip ==
  (last.op = "addPost" /\ ~last.threw) =>
    LET again == post(posts, Num(last.before + 1))
    IN  /\ Len(posts) = last.before + 1
        /\ Len(last.ret) = 1
        /\ deref(again.posts, again.ref) = last.ret
        /\ last.ret[1].id = Num(last.before + 1)
        /\ last.ret[1].title = last.arg.title
        /\ last.ret[1].text = last.arg.text
        /\ last.ret[1].authorId = Str(last.arg.authorId)
        /\ last.ret[1].createdAt \in Times
        /\ ~Falsy(last.arg.image) => last.ret[1].image = last.arg.image

\* C2: user(id) and post(id) return the stored entity whose id the argument
\* names when there is one, and nothing (null) when there is none; neither
\* raises an error.
C2_LookupById ==
  /\ last.op = "user" => (~last.threw /\ LookupOk(users))
  /\ last.op = "post" => (~last.threw /\ LookupOk(posts))

C2_Witness ==
  /\ last.op = "post"
  /\ last.arg = Str("01")
  /\ Len(last.ret) = 1
  /\ Len(posts) = 2

\* C3: addComment succeeds for every input, returns the comment it appended
\* (id = comment count before + 1, text and postId of the input), and
\* comments(postId) called next contains that comment exactly once.
C3_AddCommentReturnsNew ==
  last.op = "addComment" =>
    LET r == commentsOf(posts, comments, Str(last.arg.postId))
    IN  /\ ~last.threw
        /\ Len(comments) = last.before + 1
        /\ Len(last.ret) = 1
        /\ last.ret[1] = comments[Len(comments)]
        /\ last.ret[1].id = Num(last.before + 1)
        /\ last.ret[1].text = last.arg.text
        /\ last.ret[1].postId = Str(last.arg.postId)
        /\ Cardinality({j \in 1..Len(r.refs) : comments[r.refs[j]] = last.ret[1]}) = 1

\* the first comment of a post that had none
C3_Witness ==
  /\ last.op = "addComment"
  /\ last.arg.postId = "zz"
  /\ Len(comments) = 2
  /\ Len(commentsOf(posts, comments, Str("zz")).refs) = 1
  /\ Len(last.ret) = 1

\* C4: comments(postId) returns exactly the stored comments whose postId
\* matches the argument, each once, in store order.
C4_CommentsFilter ==
  last.op = "comments" =>
    /\ \A j \in 1..Len(last.ret) :
         /\ Matches(last.ret[j], last.arg.s)
         /\ \E i \in 1..Len(comments) : comments[i] = last.ret[j]
    /\ \A i \in 1..Len(comments) :
         Matches(comments[i], last.arg.s) =>
           Cardinality({j \in 1..Len(last.ret) : last.ret[j] = comments[i]}) = 1
    /\ \A j, k \in 1..Len(last.ret) :
         j < k => \E a, b \in 1..Len(comments) :
                    a < b /\ comments[a] = last.ret[j] /\ comments[b] = last.ret[k]

\* the seeded comment matches, the added one does not
C4_Witness ==
  /\ last.op = "comments"
  /\ last.arg = Str("1")
  /\ Len(comments) = 2
  /\ comments[2].postId = Str("zz")
  /\ last.ret = <<comments[1]>>

\* C5: every addPost sends exactly one addPost event, carrying the appended
\* post, to every websocket client connected when the mutation runs, after
\* the post is in the store.
C5_BroadcastToAll ==
  [][Len(posts') > Len(posts) =>
       /\ last'.op = "addPost"
       /\ \A i \in OpenClients : GotNewPost(i)'
       /\ \A j \in 1..Len(last'.sent) : last'.sent[j].to \in OpenClients]_vars

\* C6: a getPosts message is answered with one updatePosts event, sent to
\* the asking client only, whose posts array is as long as the store's.
C6_GetPostsReply ==
  (last.op = "message" /\ last.arg = "getPosts") =>
    /\ ~last.threw
    /\ Len(last.sent) = 1
    /\ last.sent[1].to = last.before
    /\ last.sent[1].message.event = "updatePosts"
    /\ Len(last.sent[1].message.data) = Len(posts)

\* a reply while a second client is connected and posts were added
C6_Witness ==
  /\ last.op = "message"
  /\ last.arg = "getPosts"
  /\ Len(clients) = 2
  /\ OpenClients = {1, 2}
  /\ last.before = 2
  /\ Len(posts) = 2

\* C7: a query changes no stored attribute of any post: id, title, text,
\* authorId, createdAt and an image given at creation stay as they were.
C7_QueriesPure ==
  [][last'.op \in Queries =>
       /\ Len(posts') = Len(posts)
       /\ \A i \in 1..Len(posts) :
            /\ [posts'[i] EXCEPT !.image = undefined]
                 = [posts[i] EXCEPT !.image = undefined]
            /\ ~Falsy(posts[i].image) => posts'[i].image = posts[i].image]_vars

\* C8: post ids and comment ids are 1..count; a step appends at most,
\* leaves the users alone and never changes the id or createdAt of a record.
C8_IdsInv ==
  /\ \A i \in 1..Len(posts) : posts[i].id = Num(i)
  /\ \A i \in 1..Len(comments) : comments[i].id = Num(i)

C8_Step ==
  /\ users' = users
  /\ Len(posts') >= Len(posts)
  /\ Len(comments') >= Len(comments)
  /\ \A i \in 1..Len(posts) :
       /\ posts'[i].id = posts[i].id
       /\ posts'[i].createdAt = posts[i].createdAt
  /\ \A i \in 1..Len(comments) :
       /\ comments'[i].id = comments[i].id
       /\ comments'[i].createdAt = comments[i].createdAt

C8_IdsSequentialAppendOnly == []C8_IdsInv /\ [][C8_Step]_vars

C8_Witness ==
  /\ last.op = "addPost"
  /\ Len(posts) = 2
  /\ Len(comments) = 2
  /\ posts[2].createdAt = 1

\* C9: when a send of the addPost broadcast fails, the mutation still
\* appends the post and returns it, and every other connected client still
\* receives the event.
C9_FailedSendSkipped ==
  [][(Len(posts') > Len(posts) /\ OpenClients # 1..Len(clients)) =>
       /\ last'.op = "addPost"
       /\ ~last'.threw
       /\ Len(posts') = Len(posts) + 1
       /\ Len(last'.ret) = 1
       /\ \A i \in OpenClients : GotNewPost(i)']_vars

\* C10: the post field of a returned comment is post(postId), its author
\* field is the user of that post's authorId, and a lookup miss on the way
\* gives null, never an error.
C10_CommentFieldsNoError ==
  (last.op = "comments" /\ Len(last.ret) >= 1) =>
    LET p == post(posts, last.arg)
    IN  /\ ~last.authorThrew
        /\ last.post = deref(p.posts, p.ref)
        /\ last.author = IF p.ref = 0 THEN <<>>
                         ELSE deref(users, user(users, p.posts[p.ref].authorId))

====
